---- MODULE Spec2Model ----
(***************************************************************************)
(* A model of the ondrop crate (src/src/lib.rs): OnDrop<F: FnOnce()>, a    *)
(* wrapper that stores a closure in a ManuallyDrop slot, calls it from its *)
(* Drop implementation and hands it back uncalled from into_inner.         *)
(*                                                                         *)
(* The wrapper's operations are operators over an explicit world record    *)
(* (what the closures did, what was deallocated, what ptr::read copied out *)
(* of which slot); the actions are the things a caller can do with         *)
(* wrappers held in local variables: construct, clone, box, drop (end of   *)
(* scope or drop(x)), extract, call or discard an extracted closure, and   *)
(* the derived &self methods.                                              *)
(***************************************************************************)
EXTENDS Integers, Sequences, FiniteSets

\* Number of wrappers (and so of closure instances) one behaviour creates.
MaxWrappers == 2

Ids == 1 .. MaxWrappers

\* The closure bodies the source uses: `|| dst.set(Some(token))` (tests),
\* `|| drops += 1` (doc example of OnDrop), `|| panic!()` (doc example of
\* into_inner).
Fns == {"set", "inc", "panic"}

\* A closure value of type F: the body it runs and the identity of the
\* instance (of its captured DropToken). A bitwise copy keeps the identity;
\* F::clone makes a new one.
NoF == [fn |-> "none", id |-> 0]

Closure(fn, id) == [fn |-> fn, id |-> id]

NoVal == [slot |-> [value |-> NoF]]

\* What the caller last got from a derived &self method: nothing yet.
NoObs == [op |-> "none", text |-> <<>>, flag |-> FALSE, ord |-> "Equal", hash |-> 0]

VARIABLES
    m,          \* the world: effects of closures, deallocations, raw reads
    val,        \* val[w]: the OnDrop value of wrapper w
    life,       \* life[w]: "unborn", "live", "extracted" or "dropped"
    boxed,      \* boxed[w]: the wrapper was moved into a Box
    stack,      \* the caller's locals in declaration order
    supplied,   \* supplied[w]: the closure the wrapper was built from
    cloneOf,    \* cloneOf[w]: the wrapper w was cloned from, or 0
    ret,        \* ret[w]: what into_inner returned for w
    direct,     \* direct[id]: calls the caller made itself on closure id
    teardown,   \* the wrappers in the order the host's teardown reached them
    surfaced,   \* closures whose panic reached the caller's context
    obs,        \* the last result of a derived &self method
    next        \* the next fresh wrapper / closure identity

vars == <<m, val, life, boxed, stack, supplied, cloneOf, ret, direct,
          teardown, surfaced, obs, next>>

----------------------------------------------------------------------------
\* Helpers

Bump(f, k) == [f EXCEPT ![k] = @ + 1]

RemoveAt(s, i) == SubSeq(s, 1, i - 1) \o SubSeq(s, i + 1, Len(s))

WEntry(w) == [kind |-> "w", w |-> w, f |-> NoF]

FEntry(w, f) == [kind |-> "f", w |-> w, f |-> f]

FnRank(fn) == CASE fn = "inc" -> 1 [] fn = "panic" -> 2 [] fn = "set" -> 3 [] OTHER -> 0

----------------------------------------------------------------------------
\* The closure type F

\* FnOnce::call_once: the call consumes the closure. "set" moves the captured
\* token into dst (Cell::set drops the value it replaces); "inc" adds one to
\* the caller's counter; "panic" raises, and a panic raised while another is
\* being unwound aborts the process. A capture the body does not move away is
\* dropped when the body ends or is unwound.
CallOnce(w, f) ==
    LET w1 == [w EXCEPT !.invoked = Bump(@, f.id), !.log = Append(@, f)]
    IN  CASE f.fn = "set" ->
               [w1 EXCEPT !.dst = f.id,
                          !.tokDrops = IF w.dst # 0 THEN Bump(@, w.dst) ELSE @]
          [] f.fn = "inc" ->
               [w1 EXCEPT !.counter = @ + 1, !.tokDrops = Bump(@, f.id)]
          [] f.fn = "panic" ->
               IF w.panic # 0
               THEN [w1 EXCEPT !.abort = f.id]
               ELSE [w1 EXCEPT !.panic = f.id, !.tokDrops = Bump(@, f.id)]
          [] OTHER -> w1

\* Drop glue of a closure that was not called: its captures are dropped.
DropGlue_F(w, f) ==
    [w EXCEPT !.fDrops = Bump(@, f.id), !.tokDrops = Bump(@, f.id)]

\* F::clone: the same body over a clone of the captures.
F_clone(f, fresh) == Closure(f.fn, fresh)

\* F::default, for an F that has one.
F_default(fresh) == Closure("inc", fresh)

----------------------------------------------------------------------------
\* core::mem::ManuallyDrop and core::ptr::read, as the source uses them

ManuallyDrop_new(v) == [value |-> v]

\* ManuallyDrop<T> has no drop glue: the value inside is left alone.
DropGlue_ManuallyDrop(w, md) == w

\* ptr::read(&*md): a bitwise copy of the value in the slot. The slot keeps
\* its bits; the world counts how often the value was taken out of it.
ptr_read(w, md) ==
    [v |-> md.value, m |-> [w EXCEPT !.reads = Bump(@, md.value.id)]]

----------------------------------------------------------------------------
\* OnDrop<F>

\* new that stores F::default() instead of its argument.
OnDrop_new_Default(w, f) ==
    [self |-> [slot |-> ManuallyDrop_new(Closure("inc", f.id))], m |-> w]

\* new that runs the closure while taking it.
OnDrop_new_Eager(w, f) ==
    [self |-> [slot |-> ManuallyDrop_new(f)], m |-> CallOnce(w, f)]

\* pub fn new(f: F) -> Self
OnDrop_new(w, f) == [self |-> [slot |-> ManuallyDrop_new(f)], m |-> w]

\* pub fn into_inner(self) -> F without the ManuallyDrop::new(self) guard:
\* self is dropped when the function returns.
OnDrop_into_inner_Unguarded(w, self) ==
    LET r == ptr_read(w, self.slot)
        w2 == CallOnce((ptr_read(r.m, self.slot)).m, self.slot.value)
    IN  [ret |-> r.v, m |-> w2]

\* pub fn into_inner(self) -> F
OnDrop_into_inner(w, self) ==
    LET this == ManuallyDrop_new(self)
        r == ptr_read(w, this.value.slot)
    IN  [ret |-> r.v, m |-> DropGlue_ManuallyDrop(r.m, this)]

\* Drop::drop that reads the closure out and lets it fall out of scope
\* without calling it.
Drop_drop_NoCall(w, self) ==
    LET r == ptr_read(w, self.slot)
    IN  DropGlue_F(r.m, r.v)

\* Drop::drop that calls the closure and then also drops the slot in place.
Drop_drop_AndSlot(w, self) ==
    LET r == ptr_read(w, self.slot)
    IN  DropGlue_F(CallOnce(r.m, r.v), self.slot.value)

\* Drop::drop that catches the closure's panic.
Drop_drop_Catch(w, self) ==
    LET r == ptr_read(w, self.slot)
        c == CallOnce(r.m, r.v)
    IN  [c EXCEPT !.panic = w.panic, !.abort = w.abort]

\* fn drop(&mut self)
Drop_drop(w, self) ==
    LET r == ptr_read(w, self.slot)
    IN  CallOnce(r.m, r.v)

\* The drop glue of OnDrop<F>: Drop::drop, then the glue of its one field.
DropGlue_OnDrop(w, self) ==
    DropGlue_ManuallyDrop(Drop_drop(w, self), self.slot)

\* A Box that frees its allocation without dropping the contents.
DropGlue_Box_Leak(w, self) == w

\* The drop glue of Box<OnDrop<F>>: the contents, then the allocation.
DropGlue_Box(w, self) == DropGlue_OnDrop(w, self)

\* derive(Clone) that copies the bits of the payload instead of cloning it.
OnDrop_clone_Bitwise(w, self, fresh) ==
    [self |-> [slot |-> ManuallyDrop_new(self.slot.value)], m |-> w]

\* derive(Clone): clone of the field, which clones the closure.
OnDrop_clone(w, self, fresh) ==
    [self |-> [slot |-> ManuallyDrop_new(F_clone(self.slot.value, fresh))],
     m |-> w]

\* derive(Default): the default of the field, which is F's.
OnDrop_default(w, fresh) ==
    [self |-> [slot |-> ManuallyDrop_new(F_default(fresh))], m |-> w]

\* derive(Debug) that prints the type name only.
OnDrop_fmt_Opaque(self) == <<"OnDrop">>

\* derive(Debug): the tuple struct's name and the Debug output of its field.
OnDrop_fmt(self) == <<"OnDrop", "ManuallyDrop", self.slot.value.fn>>

\* derive(PartialEq, Eq): field-wise equality of the payloads.
OnDrop_eq(self, other) == self.slot.value.fn = other.slot.value.fn

\* derive(PartialOrd, Ord): field-wise comparison of the payloads.
OnDrop_cmp(self, other) ==
    LET a == FnRank(self.slot.value.fn)
        b == FnRank(other.slot.value.fn)
    IN  IF a < b THEN "Less" ELSE IF a = b THEN "Equal" ELSE "Greater"

\* derive(Hash): the hash of the payload.
OnDrop_hash(self) == FnRank(self.slot.value.fn)

----------------------------------------------------------------------------
\* The caller

\* The caller's code runs: no panic is being unwound, and the thread has
\* neither aborted nor ended.
Running == m.panic = 0 /\ m.abort = 0 /\ ~m.ended

Live == {w \in Ids : life[w] = "live"}

\* The panic, if any, that a step brought to the caller.
Surface(w0, w1) ==
    IF w1.abort # w0.abort THEN surfaced \cup {w1.abort}
    ELSE IF w1.panic # w0.panic /\ w1.panic # 0 THEN surfaced \cup {w1.panic}
    ELSE surfaced

Init ==
    /\ m = [invoked |-> [i \in Ids |-> 0], fDrops |-> [i \in Ids |-> 0],
            tokDrops |-> [i \in Ids |-> 0], reads |-> [i \in Ids |-> 0],
            dst |-> 0, counter |-> 0, log |-> <<>>, panic |-> 0, abort |-> 0,
            ended |-> FALSE]
    /\ val = [w \in Ids |-> NoVal]
    /\ life = [w \in Ids |-> "unborn"]
    /\ boxed = [w \in Ids |-> FALSE]
    /\ stack = <<>>
    /\ supplied = [w \in Ids |-> NoF]
    /\ cloneOf = [w \in Ids |-> 0]
    /\ ret = [w \in Ids |-> NoF]
    /\ direct = [i \in Ids |-> 0]
    /\ teardown = <<>>
    /\ surfaced = {}
    /\ obs = NoObs
    /\ next = 1

\* let w = OnDrop::new(f);
New(fn) ==
    /\ Running
    /\ next \in Ids
    /\ LET r == OnDrop_new(m, Closure(fn, next))
       IN  /\ val' = [val EXCEPT ![next] = r.self]
           /\ m' = r.m
           /\ surfaced' = Surface(m, r.m)
    /\ life' = [life EXCEPT ![next] = "live"]
    /\ supplied' = [supplied EXCEPT ![next] = Closure(fn, next)]
    /\ stack' = Append(stack, WEntry(next))
    /\ next' = next + 1
    /\ UNCHANGED <<boxed, cloneOf, ret, direct, teardown, obs>>

\* let w = OnDrop::default();
Default ==
    /\ Running
    /\ next \in Ids
    /\ LET r == OnDrop_default(m, next)
       IN  /\ val' = [val EXCEPT ![next] = r.self]
           /\ m' = r.m
           /\ surfaced' = Surface(m, r.m)
    /\ life' = [life EXCEPT ![next] = "live"]
    /\ supplied' = [supplied EXCEPT ![next] = F_default(next)]
    /\ stack' = Append(stack, WEntry(next))
    /\ next' = next + 1
    /\ UNCHANGED <<boxed, cloneOf, ret, direct, teardown, obs>>

\* let w = src.clone();
Clone(src) ==
    /\ Running
    /\ next \in Ids
    /\ src \in Live
    /\ LET r == OnDrop_clone(m, val[src], next)
       IN  /\ val' = [val EXCEPT ![next] = r.self]
           /\ m' = r.m
           /\ surfaced' = Surface(m, r.m)
    /\ life' = [life EXCEPT ![next] = "live"]
    /\ supplied' = [supplied EXCEPT ![next] = F_clone(supplied[src], next)]
    /\ cloneOf' = [cloneOf EXCEPT ![next] = src]
    /\ stack' = Append(stack, WEntry(next))
    /\ next' = next + 1
    /\ UNCHANGED <<boxed, ret, direct, teardown, obs>>

\* let boxed = Box::new(w);
BoxNew(i) ==
    /\ Running
    /\ i \in DOMAIN stack
    /\ stack[i].kind = "w"
    /\ ~boxed[stack[i].w]
    /\ boxed' = [boxed EXCEPT ![stack[i].w] = TRUE]
    /\ stack' = Append(RemoveAt(stack, i), stack[i])
    /\ UNCHANGED <<m, val, life, supplied, cloneOf, ret, direct, teardown,
                   surfaced, obs, next>>

\* What dropping the local e does: the drop glue of its type.
DropLocal(e) ==
    /\ m' = IF e.kind = "f" THEN DropGlue_F(m, e.f)
            ELSE IF boxed[e.w] THEN DropGlue_Box(m, val[e.w])
            ELSE DropGlue_OnDrop(m, val[e.w])
    /\ life' = IF e.kind = "w" THEN [life EXCEPT ![e.w] = "dropped"] ELSE life
    /\ teardown' = IF e.kind = "w" THEN Append(teardown, e.w) ELSE teardown
    /\ surfaced' = Surface(m, m')
    /\ UNCHANGED <<val, boxed, supplied, cloneOf, ret, direct, obs, next>>

\* drop(x), or the end of the scope of the last local.
Drop(i) ==
    /\ Running
    /\ i \in DOMAIN stack
    /\ stack' = RemoveAt(stack, i)
    /\ DropLocal(stack[i])

\* Unwinding drops the locals in reverse order of declaration.
UnwindStep ==
    /\ m.panic # 0
    /\ m.abort = 0
    /\ ~m.ended
    /\ stack # <<>>
    /\ stack' = RemoveAt(stack, Len(stack))
    /\ DropLocal(stack[Len(stack)])

\* The unwinding has left the caller's last frame: the thread ends with the
\* panic.
UnwindDone ==
    /\ m.panic # 0
    /\ m.abort = 0
    /\ ~m.ended
    /\ stack = <<>>
    /\ m' = [m EXCEPT !.ended = TRUE]
    /\ UNCHANGED <<val, life, boxed, stack, supplied, cloneOf, ret, direct,
                   teardown, surfaced, obs, next>>

\* let f = w.into_inner();
IntoInner(i) ==
    /\ Running
    /\ i \in DOMAIN stack
    /\ stack[i].kind = "w"
    /\ LET w == stack[i].w
           r == OnDrop_into_inner(m, val[w])
       IN  /\ m' = r.m
           /\ ret' = [ret EXCEPT ![w] = r.ret]
           /\ life' = [life EXCEPT ![w] = "extracted"]
           /\ stack' = Append(RemoveAt(stack, i), FEntry(w, r.ret))
           /\ surfaced' = Surface(m, r.m)
    /\ UNCHANGED <<val, boxed, supplied, cloneOf, direct, teardown, obs, next>>

\* f();  for a closure into_inner returned
CallHeld(i) ==
    /\ Running
    /\ i \in DOMAIN stack
    /\ stack[i].kind = "f"
    /\ m' = CallOnce(m, stack[i].f)
    /\ direct' = Bump(direct, stack[i].f.id)
    /\ stack' = RemoveAt(stack, i)
    /\ surfaced' = Surface(m, m')
    /\ UNCHANGED <<val, life, boxed, supplied, cloneOf, ret, teardown, obs, next>>

\* dst.take(), the token taken out being dropped
TakeDst ==
    /\ Running
    /\ m.dst # 0
    /\ m' = [m EXCEPT !.dst = 0, !.tokDrops = Bump(@, m.dst)]
    /\ UNCHANGED <<val, life, boxed, stack, supplied, cloneOf, ret, direct,
                   teardown, surfaced, obs, next>>

Others == <<m, val, life, boxed, stack, supplied, cloneOf, ret, direct,
            teardown, surfaced, next>>

\* format!("{:?}", a)
Fmt(a) ==
    /\ Running
    /\ a \in Live
    /\ obs' = [NoObs EXCEPT !.op = "fmt", !.text = OnDrop_fmt(val[a])]
    /\ UNCHANGED Others

\* a == b
Eq(a, b) ==
    /\ Running
    /\ a \in Live /\ b \in Live
    /\ obs' = [NoObs EXCEPT !.op = "eq", !.flag = OnDrop_eq(val[a], val[b])]
    /\ UNCHANGED Others

\* a.cmp(&b)
Cmp(a, b) ==
    /\ Running
    /\ a \in Live /\ b \in Live
    /\ obs' = [NoObs EXCEPT !.op = "cmp", !.ord = OnDrop_cmp(val[a], val[b])]
    /\ UNCHANGED Others

\* a.hash(&mut hasher)
Hash(a) ==
    /\ Running
    /\ a \in Live
    /\ obs' = [NoObs EXCEPT !.op = "hash", !.hash = OnDrop_hash(val[a])]
    /\ UNCHANGED Others

\* What a caller does with wrappers and with the closures it gets back.
Next ==
    \/ \E fn \in Fns : New(fn)
    \/ Default
    \/ \E w \in Ids : Clone(w)
    \/ \E i \in Ids : BoxNew(i)
    \/ \E i \in Ids : Drop(i)
    \/ UnwindStep
    \/ UnwindDone
    \/ \E i \in Ids : IntoInner(i)
    \/ \E i \in Ids : CallHeld(i)
    \/ TakeDst

Spec == Init /\ [][Next]_vars

\* The public interface of OnDrop alone, the derived &self methods included.
DerivedNext ==
    \/ \E fn \in Fns : New(fn)
    \/ Default
    \/ \E w \in Ids : Clone(w)
    \/ \E i \in Ids : Drop(i)
    \/ UnwindStep
    \/ UnwindDone
    \/ \E i \in Ids : IntoInner(i)
    \/ \E a \in Ids : Fmt(a)
    \/ \E a, b \in Ids : Eq(a, b)
    \/ \E a, b \in Ids : Cmp(a, b)
    \/ \E a \in Ids : Hash(a)

SpecDerived == Init /\ [][DerivedNext]_vars

----------------------------------------------------------------------------
\* Properties

\* The identity of the closure wrapper w was built from.
IdOf(w) == supplied[w].id

Gone(w) == life[w] \in {"extracted", "dropped"}

\* The positions of the log at which closure id was invoked.
CallsOf(id) == {i \in DOMAIN m.log : m.log[i].id = id}

\* The extracted closure of wrapper w is still one of the caller's locals.
Held(w) == \E i \in DOMAIN stack : stack[i].kind = "f" /\ stack[i].w = w

\* The wrapper w is one of the caller's locals.
Owned(w) == \E i \in DOMAIN stack : stack[i].kind = "w" /\ stack[i].w = w

\* C1: a wrapper that was dropped (end of scope or drop(x)) without having
\* been passed to into_inner has had its closure invoked exactly once: the
\* count is 1 in every state after the destruction, and the closure's effect
\* is in the log exactly once.
C1_ExactlyOnceOnDrop ==
    \A w \in Ids :
        life[w] = "dropped" =>
            /\ m.invoked[IdOf(w)] = 1
            /\ Cardinality(CallsOf(IdOf(w))) = 1
            /\ direct[IdOf(w)] = 0

C1_Witness ==
    \E w \in Ids :
        /\ life[w] = "dropped" /\ ~boxed[w]
        /\ supplied[w].fn = "inc"
        /\ m.invoked[IdOf(w)] = 1 /\ m.counter = 1

\* C2: after into_inner the destruction-time invocation never fires: the
\* closure's invocation count equals the number of calls the caller made on
\* the returned closure itself, and it is 0 whenever the caller has discarded
\* the returned closure instead of calling it.
C2_NoInvocationOnExtraction ==
    \A w \in Ids :
        life[w] = "extracted" =>
            /\ m.invoked[IdOf(w)] = direct[IdOf(w)]
            /\ w \notin {teardown[i] : i \in DOMAIN teardown}
            /\ (m.fDrops[IdOf(w)] > 0 \/ Held(w)) =>
                   /\ m.invoked[IdOf(w)] = 0
                   /\ CallsOf(IdOf(w)) = {}

C2_Witness ==
    \E w \in Ids :
        /\ life[w] = "extracted" /\ supplied[w].fn = "panic"
        /\ ~Held(w) /\ m.fDrops[IdOf(w)] = 1
        /\ m.invoked[IdOf(w)] = 0 /\ m.panic = 0

\* C3: into_inner returns the closure that was given to new, unchanged, so
\* calling the returned value has the effect of calling the original; once
\* the caller has called it, that effect is in the log exactly once, and the
\* wrapper has added no invocation of its own.
C3_ExtractionReturnsOriginal ==
    \A w \in Ids :
        life[w] = "extracted" =>
            /\ ret[w] = supplied[w]
            /\ \A i \in DOMAIN stack : stack[i].w = w => stack[i].f = supplied[w]
            /\ Cardinality(CallsOf(IdOf(w))) = direct[IdOf(w)]
            /\ \A i \in CallsOf(IdOf(w)) : m.log[i] = supplied[w]
            /\ CallOnce(m, ret[w]) = CallOnce(m, supplied[w])

C3_Witness ==
    \E w \in Ids :
        /\ life[w] = "extracted" /\ supplied[w].fn = "set"
        /\ direct[IdOf(w)] = 1 /\ m.invoked[IdOf(w)] = 1
        /\ m.dst = IdOf(w)

\* C4: a wrapper moved into a Box has its closure invoked exactly once, at
\* the step that releases the Box: the count is 0 as long as the Box is held,
\* it is 1 right after the step that drops the Box, and it stays 1.
C4_BoxStep ==
    \A w \in Ids :
        (boxed[w] /\ life[w] = "live") =>
            /\ m.invoked[IdOf(w)] = 0
            /\ life'[w] = "live" => m'.invoked[IdOf(w)] = 0
            /\ life'[w] = "dropped" => m'.invoked[IdOf(w)] = 1

C4_BoxedInvokedAtRelease ==
    /\ [][C4_BoxStep]_vars
    /\ [](\A w \in Ids :
             (boxed[w] /\ life[w] = "dropped") =>
                 m.invoked[IdOf(w)] = 1 /\ Cardinality(CallsOf(IdOf(w))) = 1)

C4_Witness ==
    \E w \in Ids :
        /\ boxed[w] /\ life[w] = "dropped"
        /\ supplied[w].fn = "inc"
        /\ m.invoked[IdOf(w)] = 1 /\ m.counter = 1

\* C5: when the closure of a dropped wrapper panics, the panic reaches the
\* caller at the drop: it is the panic being unwound (or, raised while another
\* panic was being unwound, the one that aborted the process); the wrapper
\* has not swallowed it, and the closure was invoked once, not again.
C5_PanicPropagates ==
    \A w \in Ids :
        (life[w] = "dropped" /\ supplied[w].fn = "panic") =>
            /\ IdOf(w) \in surfaced
            /\ m.panic = IdOf(w) \/ m.abort = IdOf(w)
            /\ ~Running
            /\ m.invoked[IdOf(w)] = 1
            /\ Cardinality(CallsOf(IdOf(w))) = 1

C5_Witness ==
    \E w \in Ids :
        /\ life[w] = "dropped" /\ supplied[w].fn = "panic"
        /\ m.panic = IdOf(w) /\ m.abort = 0
        /\ m.invoked[IdOf(w)] = 1

\* C6: a closure, and the token it captures, is deallocated once and only
\* once. A closure is consumed at most once (by a call or by being dropped
\* uncalled) and its token is dropped at most once. After into_inner with the
\* result discarded the token has been dropped and the closure has not run.
\* After the wrapper is dropped the closure has been consumed by its one
\* invocation and by nothing else: a token the closure moved to dst is there,
\* not dropped, until the caller takes it out. A wrapper that is gone and
\* whose closure the caller no longer holds has had the closure consumed.
C6_DeallocatedOnce ==
    /\ \A id \in Ids :
        /\ m.invoked[id] + m.fDrops[id] <= 1
        /\ m.tokDrops[id] <= 1
        /\ m.invoked[id] + m.fDrops[id] = 0 => m.tokDrops[id] = 0 /\ m.dst # id
        /\ (m.invoked[id] + m.fDrops[id] = 1 /\ m.abort # id) =>
               m.tokDrops[id] = (IF m.dst = id THEN 0 ELSE 1)
    /\ \A w \in Ids :
        /\ (life[w] = "extracted" /\ m.fDrops[IdOf(w)] = 1) =>
               /\ m.tokDrops[IdOf(w)] = 1
               /\ m.invoked[IdOf(w)] = 0
               /\ m.dst # IdOf(w)
        /\ life[w] = "dropped" =>
               m.invoked[IdOf(w)] = 1 /\ m.fDrops[IdOf(w)] = 0
        /\ (life[w] = "extracted" /\ ~Held(w)) =>
               m.invoked[IdOf(w)] + m.fDrops[IdOf(w)] = 1

C6_Witness ==
    \E a, b \in Ids :
        /\ life[a] = "extracted" /\ ~Held(a)
        /\ m.fDrops[IdOf(a)] = 1 /\ m.tokDrops[IdOf(a)] = 1
        /\ life[b] = "dropped" /\ supplied[b].fn = "set"
        /\ m.dst = IdOf(b) /\ m.tokDrops[IdOf(b)] = 0

\* C7: a wrapper is either live, and then it is one of the caller's locals
\* and its slot holds the closure it was built from, never read out, called
\* or dropped; or it is gone, and then its slot has been read out exactly
\* once, by into_inner or by drop and not by both, and the wrapper is no
\* local any more, so nothing can use it or tear it down again. This holds
\* as well when the closure panics in drop.
C7_Lifecycle ==
    \A w \in Ids :
        /\ life[w] = "live" =>
               /\ Cardinality({i \in DOMAIN stack :
                                  stack[i].kind = "w" /\ stack[i].w = w}) = 1
               /\ val[w].slot.value = supplied[w]
               /\ m.reads[IdOf(w)] = 0
               /\ m.invoked[IdOf(w)] = 0
               /\ m.fDrops[IdOf(w)] = 0
               /\ m.tokDrops[IdOf(w)] = 0
        /\ Gone(w) =>
               /\ ~Owned(w)
               /\ m.reads[IdOf(w)] = 1
        /\ life[w] = "extracted" =>
               /\ ret[w] # NoF
               /\ \A i \in DOMAIN teardown : teardown[i] # w
        /\ life[w] = "dropped" =>
               /\ ret[w] = NoF
               /\ ~Held(w)
               /\ Cardinality({i \in DOMAIN teardown : teardown[i] = w}) = 1

C7_Witness ==
    \E a, b \in Ids :
        /\ life[a] = "dropped" /\ supplied[a].fn = "panic"
        /\ m.panic = IdOf(a) /\ m.reads[IdOf(a)] = 1
        /\ life[b] = "extracted" /\ m.reads[IdOf(b)] = 1

\* The closures the wrappers' destructors invoked, in the order of the calls.
DtorCalls ==
    LET ByDrop(f) == \E w \in Ids : IdOf(w) = f.id /\ life[w] = "dropped"
        calls == SelectSeq(m.log, ByDrop)
    IN  [i \in DOMAIN calls |-> calls[i].id]

\* C8: a closure is invoked only at the step at which its wrapper's life
\* ends by being dropped (or, once extracted, when the caller calls it): not
\* by new, and not while the wrapper is held. The destructors' invocations
\* are in the order in which the teardown reached the wrappers.
C8_Step ==
    \A id \in Ids :
        m'.invoked[id] # m.invoked[id] =>
            \E w \in Ids :
                /\ IdOf(w) = id
                /\ \/ life[w] = "live" /\ life'[w] = "dropped"
                   \/ life[w] = "extracted" /\ direct'[id] = direct[id] + 1

C8_InvokedAtEndInOrder ==
    /\ [][C8_Step]_vars
    /\ [](DtorCalls = [i \in DOMAIN teardown |-> IdOf(teardown[i])])

C8_Witness ==
    /\ Len(teardown) = 2
    /\ teardown[1] = 2 /\ teardown[2] = 1
    /\ ~boxed[1] /\ ~boxed[2]
    /\ DtorCalls = <<IdOf(2), IdOf(1)>>

RECURSIVE SumOver(_, _)
SumOver(f, S) ==
    IF S = {} THEN 0
    ELSE LET x == CHOOSE y \in S : TRUE
         IN  f[x] + SumOver(f, S \ {x})

\* C10: cloning a live wrapper invokes nothing and changes no other wrapper;
\* the clone holds a closure instance of its own with the body of its
\* source's; the wrappers then live and die independently: the number of
\* invocations made by destructors equals the number of wrappers dropped
\* without extraction, each dropped wrapper's instance was invoked once, and
\* an extracted wrapper's instance was not invoked by any destructor.
C10_CloneStep ==
    \A w \in Ids :
        (life[w] = "unborn" /\ life'[w] = "live" /\ cloneOf'[w] # 0) =>
            /\ m' = m
            /\ \A v \in Ids \ {w} : life'[v] = life[v] /\ val'[v] = val[v]

C10_State ==
    /\ \A a, b \in Ids :
        (a # b /\ life[a] # "unborn" /\ life[b] # "unborn") =>
            val[a].slot.value.id # val[b].slot.value.id
    /\ \A w \in Ids :
        cloneOf[w] # 0 =>
            /\ val[w].slot.value.fn = supplied[cloneOf[w]].fn
            /\ val[w].slot.value.id # val[cloneOf[w]].slot.value.id
    /\ SumOver(m.invoked, Ids) - SumOver(direct, Ids)
           = Cardinality({w \in Ids : life[w] = "dropped"})
    /\ \A w \in Ids :
        /\ life[w] = "dropped" => m.invoked[val[w].slot.value.id] = 1
        /\ life[w] = "extracted" =>
               m.invoked[val[w].slot.value.id] = direct[val[w].slot.value.id]

C10_ClonesIndependent == [][C10_CloneStep]_vars /\ []C10_State

C10_Witness ==
    \E w \in Ids :
        /\ cloneOf[w] # 0
        /\ life[w] = "dropped" /\ life[cloneOf[w]] = "extracted"
        /\ ~Held(cloneOf[w])
        /\ m.invoked[IdOf(w)] = 1
        /\ m.invoked[IdOf(cloneOf[w])] = 0

\* C9 as stated: nothing replaces the payload of a live wrapper, and no
\* operation of the public interface lets the caller inspect it: what the
\* derived Debug, PartialEq, Ord and Hash methods return is the same whatever
\* the payloads of the wrappers they are applied to.
C9_OpaqueAndImmutable ==
    /\ \A w \in Live : val[w].slot.value = supplied[w]
    /\ obs.op = "fmt" => \A w \in Live : OnDrop_fmt(val[w]) = obs.text
    /\ obs.op = "eq" => \A a, b \in Live : OnDrop_eq(val[a], val[b]) = obs.flag
    /\ obs.op = "cmp" => \A a, b \in Live : OnDrop_cmp(val[a], val[b]) = obs.ord
    /\ obs.op = "hash" => \A w \in Live : OnDrop_hash(val[w]) = obs.hash

\* C9 as amended: nothing mutates a wrapper during its life (the derived
\* &self methods change nothing at all, a live wrapper's slot keeps holding
\* the closure it was built from, and a wrapper that is gone stays gone, so
\* no payload is replaced or re-armed), but the wrapper is not opaque: the
\* derived Debug, PartialEq, Ord and Hash results are those of the payload.
C9_Step ==
    /\ obs' # obs => UNCHANGED Others
    /\ \A w \in Ids :
        /\ (life[w] = "live" /\ life'[w] = "live") => val'[w] = val[w]
        /\ Gone(w) => life'[w] = life[w] /\ val'[w] = val[w]
        /\ life[w] # "unborn" => supplied'[w] = supplied[w]

C9_State ==
    /\ \A w \in Live : val[w].slot.value = supplied[w]
    /\ obs.op = "fmt" =>
           \E w \in Ids : /\ life[w] # "unborn"
                          /\ obs.text = <<"OnDrop", "ManuallyDrop", supplied[w].fn>>
    /\ obs.op = "eq" =>
           \E a, b \in Ids : /\ life[a] # "unborn" /\ life[b] # "unborn"
                             /\ obs.flag = (supplied[a].fn = supplied[b].fn)
    /\ obs.op = "cmp" =>
           \E a, b \in Ids : /\ life[a] # "unborn" /\ life[b] # "unborn"
                             /\ (obs.ord = "Equal") = (supplied[a].fn = supplied[b].fn)
    /\ obs.op = "hash" =>
           \E w \in Ids : /\ life[w] # "unborn"
                          /\ obs.hash = FnRank(supplied[w].fn)

C9_ImmutableButInspectable == [][C9_Step]_vars /\ []C9_State

C9_Witness ==
    \E a, b \in Live :
        /\ supplied[a].fn # supplied[b].fn
        /\ obs.op = "eq" /\ obs.flag = FALSE
        /\ val[a].slot.value = supplied[a]
        /\ val[b].slot.value = supplied[b]

====
